---- MODULE Spec2Model ----
(***************************************************************************)
(* Model of scripts/download_everyayah.py: the task catalog, the           *)
(* single-file fetcher download_file, the thread-pool worker               *)
(* download_worker and the orchestration in main.                          *)
(*                                                                         *)
(* The static tables are scaled down (NumReciters reciters, one surah of  *)
(* one ayah).  A file is its size and whether it holds a whole response      *)
(* body.  The unsynchronised "stats.x += 1" of download_worker is a read   *)
(* followed by a write.  Filesystem calls on a path succeed.               *)
(*                                                                         *)
(* download_file is a step relation DfStep on the call's frame and its two *)
(* files.  SpecFetch takes it one step at a time (and can kill the process *)
(* between steps); Spec, the thread pool, takes a whole call at once,      *)
(* since the calls of different threads work on different paths.           *)
(* SpecStart is main from its first line to the entry of the pool, for    *)
(* every command line, answer to the prompt, checkpoint file and table of  *)
(* ayah counts within the bounds.                                          *)
(***************************************************************************)
EXTENDS Integers, Sequences, FiniteSets, TLC

\* ---------------------------------------------------------------- bounds
NumReciters == 2
NumWorkers == 2
MaxCalls == 2
ExtraBytes == 1
MaxSurahs == 2
MaxAyahs == 2
MaxFilter == 2

\* ------------------------------------------------------ program constants
MIN_VALID_FILE_SIZE == 1024
Retries == 3

\* ------------------------------------------------------------ static data
RECITERS == [i \in 1..NumReciters |-> [folder |-> i, name |-> (i + 1) \div 2]]

SURAH_AYAH_COUNTS == <<1>>

\* --------------------------------------------------------------- catalog
RECURSIVE Digits(_)
Digits(n) == IF n < 10 THEN <<n>> ELSE Digits(n \div 10) \o <<n % 10>>

RECURSIVE zfill(_, _)
zfill(s, width) == IF Len(s) >= width THEN s ELSE zfill(<<0>> \o s, width)

FileName(surah_num, ayah_num) ==
    [stem |-> zfill(Digits(surah_num), 3) \o zfill(Digits(ayah_num), 3),
     suffix |-> "mp3"]

OutputPath(folder, filename) ==
    [folder |-> folder, stem |-> filename.stem, suffix |-> filename.suffix]

\* the whole file name replaced, not only its suffix
with_suffix_whole_name(path, suffix) ==
    [path EXCEPT !.stem = <<>>, !.suffix = suffix]

with_suffix(path, suffix) == [path EXCEPT !.suffix = suffix]

TempPath(output_path) == with_suffix(output_path, "tmp")

MakeTask(reciter, surah_num, ayah_num) ==
    [url |-> <<"BASE_URL", reciter.folder, FileName(surah_num, ayah_num)>>,
     output_path |-> OutputPath(reciter.folder, FileName(surah_num, ayah_num)),
     reciter |-> reciter.name,
     surah |-> surah_num,
     ayah |-> ayah_num]

\* range(1, ayah_count) in place of range(1, ayah_count + 1)
RECURSIVE AyahTasksShort(_, _, _, _)
AyahTasksShort(reciter, surah_num, ayah_num, counts) ==
    IF ayah_num >= counts[surah_num] THEN <<>>
    ELSE <<MakeTask(reciter, surah_num, ayah_num)>>
         \o AyahTasksShort(reciter, surah_num, ayah_num + 1, counts)

\* the loops of generate_download_tasks over a table counts of ayah counts
RECURSIVE AyahTasks(_, _, _, _)
AyahTasks(reciter, surah_num, ayah_num, counts) ==
    IF ayah_num > counts[surah_num] THEN <<>>
    ELSE <<MakeTask(reciter, surah_num, ayah_num)>>
         \o AyahTasks(reciter, surah_num, ayah_num + 1, counts)

RECURSIVE SurahTasks(_, _, _)
SurahTasks(reciter, surah_num, counts) ==
    IF surah_num > Len(counts) THEN <<>>
    ELSE AyahTasks(reciter, surah_num, 1, counts)
         \o SurahTasks(reciter, surah_num + 1, counts)

RECURSIVE generate_download_tasks(_, _)
generate_download_tasks(reciters, counts) ==
    IF reciters = <<>> THEN <<>>
    ELSE SurahTasks(Head(reciters), 1, counts)
         \o generate_download_tasks(Tail(reciters), counts)

\* the catalog of the thread pool model: all reciters, the one-ayah table
Tasks == generate_download_tasks(RECITERS, SURAH_AYAH_COUNTS)

NumTasks == Len(Tasks)

TaskIds == 1..NumTasks

Workers == 1..NumWorkers

Paths == {Tasks[t].output_path : t \in TaskIds}
         \cup {TempPath(Tasks[t].output_path) : t \in TaskIds}

\* ------------------------------------------------------------------ files
Absent == [exists |-> FALSE, size |-> 0, whole |-> FALSE]

File(size, whole) == [exists |-> TRUE, size |-> size, whole |-> whole]

BodySizes == {MIN_VALID_FILE_SIZE - 1, MIN_VALID_FILE_SIZE,
              MIN_VALID_FILE_SIZE + ExtraBytes}

\* sizes a temp file can have when the stream breaks before the body's end
PartialSizes(body) == {0} \cup {s \in BodySizes : s < body}

\* a file of exactly the minimum size counted as too small
ExistingIsValidStrict(file_size) == file_size > MIN_VALID_FILE_SIZE

\* any existing file counted as valid
ExistingIsValidAny(file_size) == file_size >= 0

ExistingIsValid(file_size) == file_size >= MIN_VALID_FILE_SIZE

DownloadedIsValid(file_size) == file_size >= MIN_VALID_FILE_SIZE

\* ------------------------------------------------------- download_file results
Result(success, skipped, error) ==
    [success |-> success, skipped |-> skipped, error |-> error]

NoResult == Result(FALSE, FALSE, "unset")
AlreadyPresent == Result(TRUE, TRUE, "None")
NewlyDownloaded == Result(TRUE, FALSE, "None")
Failed(error) == Result(FALSE, FALSE, error)

IsFailed(r) == r # NoResult /\ ~r.success

\* what session.get can produce, by the kind of endpoint: a real one, two
\* that always fail the same way, and a mock transport that serves a valid
\* file or answers 404 (its transfers can still break)
Responses(mode) ==
    CASE mode = "always_timeout" -> {"Timeout"}
      [] mode = "always_404" -> {"404"}
      [] mode = "mock" -> {"200", "404"}
      [] OTHER -> {"200", "404", "500", "Timeout", "ConnectionError"}

\* the sizes of the bodies a 200 response can carry
Bodies(mode) ==
    IF mode = "mock" THEN {MIN_VALID_FILE_SIZE} ELSE BodySizes

EndpointModes == {"any", "always_timeout", "always_404"}

\* time.sleep argument of each retry branch
StatusBackoff(attempt) == 1 * (attempt + 1)

\* a fixed delay instead of a growing one
ExceptionBackoffFixed(attempt) == 2

ExceptionBackoff(attempt) == 2 * (attempt + 1)

VARIABLES
    fs,          \* the files under the output directory, by path
    force,       \* args.force
    endpoint,    \* how the remote endpoint behaves
    thr,         \* each thread: its position and the locals of its calls
    outcome,     \* per task: how its last download_file call ended
    stats,       \* the DownloadStats object
    mpc,         \* position of main
    submitted,   \* executor.submit calls made
    started,     \* work items taken from the executor's queue
    completed,   \* futures that are done
    handled,     \* futures yielded by as_completed
    interrupted, \* main's local flag
    sigint,      \* KeyboardInterrupt has been raised in main
    checkpoint,  \* .download_progress.json
    report,      \* failed_downloads.json
    manifest,    \* manifest.json
    exitcode,    \* main's return value (-1: none yet)
    calls,       \* direct download_file calls made so far
    args,        \* the parsed command line (args.force is the variable force)
    confirm,     \* the answer typed at "Proceed with download? [y/N]"
    surah_table, \* the table of ayah counts the catalog is built from
    selected_reciters, \* main's local reciters
    tasks,       \* main's local tasks
    outdir,      \* the output directory exists
    prev_progress, \* main's local prev_progress
    rerun        \* the run began, force off, with every destination file valid

mvars == <<mpc, submitted, started, completed, handled, interrupted, sigint,
           checkpoint, report, manifest, exitcode>>
svars == <<args, confirm, surah_table, selected_reciters, tasks, outdir,
           prev_progress, rerun>>
vars == <<fs, force, endpoint, thr, outcome, stats, mvars, calls, svars>>

NoFilePair == [dest |-> Absent, temp |-> Absent]

NoFileOnDisk == [exists |-> FALSE]

DownloadStats == [total |-> 0, downloaded |-> 0, skipped |-> 0, failed |-> 0,
                  failed_files |-> <<>>]

\* a pool thread with no work item
\*   pc       position in download_worker / download_file
\*   task     index of the task in the catalog (0: none)
\*   attempt  download_file's loop variable
\*   after    how the try statement is left: return, continue, raise
\*   ret      the value download_file returns
\*   resp     what the last session.get produced
\*   body     size of the response body being streamed
\*   reg      the counter value read by "+= 1"
\*   nreq     session.get calls of the current download_file call
\*   delays   time.sleep arguments of the current download_file call
\*   pre      destination and temp file when the call began
IdleThread ==
    [pc |-> "idle", task |-> 0, attempt |-> 0, after |-> "none",
     ret |-> NoResult, resp |-> "none", body |-> 0, reg |-> 0, nreq |-> 0, delays |-> <<>>,
     pre |-> NoFilePair]

\* ------------------------------------------------------------------- Init
\* the record download_worker appends for a Failed result (lines 388-395)
FailureRecord(t, error) ==
    [url |-> Tasks[t].url, path |-> Tasks[t].output_path,
     reciter |-> Tasks[t].reciter, surah |-> Tasks[t].surah,
     ayah |-> Tasks[t].ayah, error |-> error]

\* the tasks whose destination file is missing, in catalog order
Missing ==
    SelectSeq([t \in TaskIds |-> t],
              LAMBDA t : ~fs[Tasks[t].output_path].exists)

\* failed_downloads.json when a run begins on an output directory an
\* earlier run left incomplete: that run's report of the missing files;
\* none on an empty or a complete directory
EarlierReport ==
    IF Missing = <<>> \/ Len(Missing) = NumTasks THEN NoFileOnDisk
    ELSE [exists |-> TRUE,
          failed_files |-> [i \in 1..Len(Missing) |->
                              FailureRecord(Missing[i], "Timeout")]]

\* no work item submitted, main has not returned
InitPool ==
    /\ submitted = 0
    /\ started = 0
    /\ completed = {}
    /\ handled = 0
    /\ interrupted = FALSE
    /\ sigint = FALSE
    /\ manifest = NoFileOnDisk
    /\ exitcode = -1

InitMain ==
    /\ mpc = "submit"
    /\ checkpoint = NoFileOnDisk
    /\ InitPool

None == [kind |-> "None"]

\* the command line of a download run with --workers W
RunArgs(W) ==
    [list_reciters |-> FALSE, output |-> TRUE, reciters |-> <<>>,
     dry_run |-> FALSE, workers |-> W]

\* main's locals at the entry of its try block, all reciters selected
InitLocals ==
    /\ confirm = "y"
    /\ surah_table = SURAH_AYAH_COUNTS
    /\ selected_reciters = RECITERS
    /\ tasks = Tasks
    /\ outdir = TRUE
    /\ prev_progress = None

\* destination files a call can find: none, a too-small one, valid ones
InitialDestFiles ==
    {Absent} \cup {File(s, s >= MIN_VALID_FILE_SIZE) : s \in BodySizes}

\* the output directory holds the destination files d[t] and no temp file
InitFs(choices) ==
    \E d \in choices :
        fs = [p \in Paths |->
                IF \E t \in TaskIds : p = Tasks[t].output_path
                THEN d[CHOOSE t \in TaskIds : p = Tasks[t].output_path]
                ELSE Absent]

\* every destination file of the catalog is there with 1024 bytes or more
AllPresent ==
    \A t \in TaskIds :
      /\ fs[Tasks[t].output_path].exists
      /\ fs[Tasks[t].output_path].size >= MIN_VALID_FILE_SIZE

\* main, at the entry of its try block (stats.start done)
Init ==
    /\ InitFs([TaskIds -> {Absent, File(MIN_VALID_FILE_SIZE, TRUE)}])
    /\ force \in BOOLEAN
    /\ endpoint = "mock"
    /\ thr = [w \in Workers |-> IdleThread]
    /\ InitMain
    /\ outcome = [t \in TaskIds |-> "none"]
    /\ stats = [DownloadStats EXCEPT !.total = NumTasks]
    /\ calls = 0
    /\ InitLocals
    /\ report = EarlierReport
    /\ rerun = (AllPresent /\ ~force)
    /\ args \in {RunArgs(W) : W \in 1..NumWorkers}

\* ---------------------------------------------------------- download_file
\* A context x is a thread's frame x.th with the two files of its task,
\* x.dest and x.temp.  Each operator gives the contexts one step leads to.

\* force handled by deleting the existing destination file first
DfBeginForceDeletes(x, f) ==
    IF ~f /\ x.dest.exists
    THEN IF ExistingIsValid(x.dest.size)
         THEN {[x EXCEPT !.th.ret = AlreadyPresent, !.th.pc = "df_ret"]}
         ELSE {[x EXCEPT !.dest = Absent, !.th.pc = "df_get"]}
    ELSE {[x EXCEPT !.dest = Absent, !.th.pc = "df_get"]}

\* lines 281-296: the already-present check, the deletion of a too-small
\* file, mkdir, temp_path
DfBegin(x, f) ==
    IF ~f /\ x.dest.exists
    THEN IF ExistingIsValid(x.dest.size)
         THEN {[x EXCEPT !.th.ret = AlreadyPresent, !.th.pc = "df_ret"]}
         ELSE {[x EXCEPT !.dest = Absent, !.th.pc = "df_get"]}
    ELSE {[x EXCEPT !.th.pc = "df_get"]}

\* one retry too many: the last attempt sleeps and continues as well
RetryableOffByOne(x, backoff, error) ==
    IF x.th.attempt < Retries
    THEN [x EXCEPT !.th.delays = Append(@, backoff),
                   !.th.after = "continue", !.th.pc = "df_finally"]
    ELSE [x EXCEPT !.th.ret = Failed(error),
                   !.th.after = "return", !.th.pc = "df_finally"]

\* a retryable failure inside the try: sleep and continue, or return
Retryable(x, backoff, error) ==
    IF x.th.attempt < Retries - 1
    THEN [x EXCEPT !.th.delays = Append(@, backoff),
                   !.th.after = "continue", !.th.pc = "df_finally"]
    ELSE [x EXCEPT !.th.ret = Failed(error),
                   !.th.after = "return", !.th.pc = "df_finally"]

\* 404 handled like any other unexpected status
OnResponseRetry404(x, r, mode) ==
    CASE r = "200" ->
           {[x EXCEPT !.th.body = b, !.temp = File(0, FALSE),
                      !.th.pc = "df_stream"] : b \in Bodies(mode)}
      [] r \in {"404", "500"} ->
           {Retryable(x, StatusBackoff(x.th.attempt),
                      IF r = "404" THEN "HTTP 404" ELSE "HTTP 500")}
      [] r = "Timeout" ->
           {Retryable(x, ExceptionBackoff(x.th.attempt), "Timeout")}
      [] OTHER ->
           {Retryable(x, ExceptionBackoff(x.th.attempt), "ConnectionError")}

\* lines 302-303, 316-333: the branch on the result r of session.get
OnResponse(x, r, mode) ==
    CASE r = "200" ->
           {[x EXCEPT !.th.body = b, !.temp = File(0, FALSE),
                      !.th.pc = "df_stream"] : b \in Bodies(mode)}
      [] r = "404" ->
           {[x EXCEPT !.th.ret = Failed("404 Not Found"),
                      !.th.after = "return", !.th.pc = "df_finally"]}
      [] r = "500" ->
           {Retryable(x, StatusBackoff(x.th.attempt), "HTTP 500")}
      [] r = "Timeout" ->
           {Retryable(x, ExceptionBackoff(x.th.attempt), "Timeout")}
      [] OTHER ->
           {Retryable(x, ExceptionBackoff(x.th.attempt), "ConnectionError")}

\* line 300: session.get
DfGet(x, mode) ==
    UNION {OnResponse([x EXCEPT !.th.nreq = @ + 1, !.th.resp = r], r, mode)
           : r \in Responses(mode)}

\* the chunks written to the destination path itself
DfStreamToDest(x) ==
    {[x EXCEPT !.dest = File(x.th.body, TRUE), !.temp = File(x.th.body, TRUE),
               !.th.pc = "df_verify"]}
    \cup {Retryable([x EXCEPT !.dest = File(s, FALSE)],
                    ExceptionBackoff(x.th.attempt), "ConnectionError")
          : s \in PartialSizes(x.th.body)}
    \cup {[x EXCEPT !.dest = File(s, FALSE), !.th.after = "raise",
                    !.th.pc = "df_finally"] : s \in PartialSizes(x.th.body)}

\* lines 303-306: the chunks are written to the temp file; the stream ends,
\* breaks with a RequestException, or a write raises OSError
DfStream(x) ==
    {[x EXCEPT !.temp = File(x.th.body, TRUE), !.th.pc = "df_verify"]}
    \cup {Retryable([x EXCEPT !.temp = File(s, FALSE)],
                    ExceptionBackoff(x.th.attempt), "ConnectionError")
          : s \in PartialSizes(x.th.body)}
    \cup {[x EXCEPT !.temp = File(s, FALSE), !.th.after = "raise",
                    !.th.pc = "df_finally"] : s \in PartialSizes(x.th.body)}

\* a too-small body handled like a transient failure
DfVerifyRetrySmall(x) ==
    IF DownloadedIsValid(x.temp.size)
    THEN {[x EXCEPT !.dest = x.temp, !.temp = Absent,
                    !.th.ret = NewlyDownloaded,
                    !.th.after = "return", !.th.pc = "df_finally"]}
    ELSE {Retryable([x EXCEPT !.temp = Absent],
                    StatusBackoff(x.th.attempt), "Downloaded file too small")}

\* lines 308-314: size check of the temp file, rename or unlink
DfVerify(x) ==
    IF DownloadedIsValid(x.temp.size)
    THEN {[x EXCEPT !.dest = x.temp, !.temp = Absent,
                    !.th.ret = NewlyDownloaded,
                    !.th.after = "return", !.th.pc = "df_finally"]}
    ELSE {[x EXCEPT !.temp = Absent,
                    !.th.ret = Failed("Downloaded file too small"),
                    !.th.after = "return", !.th.pc = "df_finally"]}

\* the finally clause without its cleanup of the temp file
DfFinallyNoCleanup(x) ==
    LET y == [x EXCEPT !.th.after = "none"]
    IN  CASE x.th.after = "return" -> {[y EXCEPT !.th.pc = "df_ret"]}
          [] x.th.after = "raise" -> {[y EXCEPT !.th.pc = "df_raise"]}
          [] OTHER ->
               IF x.th.attempt + 1 < Retries
               THEN {[y EXCEPT !.th.attempt = @ + 1, !.th.pc = "df_get"]}
               ELSE {[y EXCEPT !.th.ret = Failed("Max retries exceeded"),
                               !.th.pc = "df_ret"]}

\* lines 334-342: the finally clause, then the return, the propagating
\* exception, the next iteration, or the fall-through after the loop
DfFinally(x) ==
    LET y == [x EXCEPT !.temp = Absent, !.th.after = "none"]
    IN  CASE x.th.after = "return" -> {[y EXCEPT !.th.pc = "df_ret"]}
          [] x.th.after = "raise" -> {[y EXCEPT !.th.pc = "df_raise"]}
          [] OTHER ->
               IF x.th.attempt + 1 < Retries
               THEN {[y EXCEPT !.th.attempt = @ + 1, !.th.pc = "df_get"]}
               ELSE {[y EXCEPT !.th.ret = Failed("Max retries exceeded"),
                               !.th.pc = "df_ret"]}

DfPcs == {"df_begin", "df_get", "df_stream", "df_verify", "df_finally"}

\* one step of download_file
DfStep(x, f, mode) ==
    CASE x.th.pc = "df_begin" -> DfBegin(x, f)
      [] x.th.pc = "df_get" -> DfGet(x, mode)
      [] x.th.pc = "df_stream" -> DfStream(x)
      [] x.th.pc = "df_verify" -> DfVerify(x)
      [] x.th.pc = "df_finally" -> DfFinally(x)
      [] OTHER -> {x}

\* download_file from the contexts X until it returns or raises
RECURSIVE DfRun(_, _, _)
DfRun(X, f, mode) ==
    IF \A x \in X : x.th.pc \notin DfPcs THEN X
    ELSE DfRun(UNION {DfStep(x, f, mode) : x \in X}, f, mode)

Dest(w) == Tasks[thr[w].task].output_path
Temp(w) == TempPath(Dest(w))

Ctx(w) == [th |-> thr[w], dest |-> fs[Dest(w)], temp |-> fs[Temp(w)]]

Commit(w, y) ==
    /\ thr' = [thr EXCEPT ![w] = y.th]
    /\ fs' = [fs EXCEPT ![Dest(w)] = y.dest, ![Temp(w)] = y.temp]

\* thread w takes one step of download_file
DownloadFileStep(w) ==
    /\ thr[w].pc \in DfPcs
    /\ \E y \in DfStep(Ctx(w), force, endpoint) : Commit(w, y)
    /\ UNCHANGED <<force, endpoint, outcome, stats, mvars, calls, svars>>

\* the frame of a call that is over: only what the caller gets is left
Returned(th) ==
    [IdleThread EXCEPT !.pc = th.pc, !.task = th.task, !.ret = th.ret]

\* thread w runs its download_file call to the end
DownloadFileCall(w) ==
    /\ thr[w].pc = "df_begin"
    /\ \E y \in DfRun({Ctx(w)}, force, endpoint) :
         Commit(w, [y EXCEPT !.th = Returned(y.th)])
    /\ UNCHANGED <<force, endpoint, outcome, stats, mvars, calls, svars>>

\* a call of download_file on task t begins: its locals are fresh
EnterCall(w, t) ==
    thr' = [thr EXCEPT ![w] =
              [IdleThread EXCEPT
                 !.pc = "df_begin", !.task = t,
                 !.pre = [dest |-> fs[Tasks[t].output_path],
                          temp |-> fs[TempPath(Tasks[t].output_path)]]]]

OutcomeOf(r) ==
    IF r.success THEN (IF r.skipped THEN "skipped" ELSE "downloaded")
    ELSE "failed"

\* -------------------------------------------------------- download_worker
\* a pool that lets any thread of the model run, whatever max_workers is
WorkerTakeUnbounded(w) ==
    /\ thr[w].pc = "idle"
    /\ \A v \in 1..(w - 1) : thr[v].pc # "idle"
    /\ started < submitted
    /\ started' = started + 1
    /\ EnterCall(w, started + 1)
    /\ UNCHANGED <<fs, force, endpoint, outcome, stats, mpc, submitted,
                   completed, handled, interrupted, sigint, checkpoint, report,
                   manifest, exitcode, calls, svars>>

\* ThreadPoolExecutor(max_workers=args.workers) has at most args.workers
\* threads; an idle one takes the next queued work item (FIFO) and calls
\* download_worker, which calls download_file (lines 378-379).  Idle
\* threads are interchangeable: the one with the least index takes it.
WorkerTake(w) ==
    /\ w <= args.workers
    /\ thr[w].pc = "idle"
    /\ \A v \in 1..(w - 1) : thr[v].pc # "idle"
    /\ started < submitted
    /\ started' = started + 1
    /\ EnterCall(w, started + 1)
    /\ UNCHANGED <<fs, force, endpoint, outcome, stats, mpc, submitted,
                   completed, handled, interrupted, sigint, checkpoint, report,
                   manifest, exitcode, calls, svars>>

\* the attribute of stats that lines 381-387 increment for a result
Counter(r) == OutcomeOf(r)

\* lines 379-387: download_file has returned; first half of
\* "stats.<counter> += 1", the read
DwRead(w) ==
    /\ thr[w].pc = "df_ret"
    /\ outcome' = [outcome EXCEPT ![thr[w].task] = OutcomeOf(thr[w].ret)]
    /\ thr' = [thr EXCEPT ![w] =
                 [IdleThread EXCEPT !.pc = "dw_write", !.task = thr[w].task,
                                    !.ret = thr[w].ret,
                                    !.reg = stats[Counter(thr[w].ret)]]]
    /\ UNCHANGED <<fs, force, endpoint, stats, mvars, calls, svars>>

\* second half of "stats.<counter> += 1": the write; a successful work item
\* ends here (line 397)
DwWrite(w) ==
    /\ thr[w].pc = "dw_write"
    /\ stats' = [stats EXCEPT ![Counter(thr[w].ret)] = thr[w].reg + 1]
    /\ IF thr[w].ret.success
       THEN /\ completed' = completed \cup {thr[w].task}
            /\ thr' = [thr EXCEPT ![w] = IdleThread]
       ELSE /\ completed' = completed
            /\ thr' = [thr EXCEPT ![w].pc = "dw_append"]
    /\ UNCHANGED <<fs, force, endpoint, outcome, mpc, submitted, started,
                   handled, interrupted, sigint, checkpoint, report, manifest,
                   exitcode, calls, svars>>

\* lines 388-397: stats.failed_files.append(...), return
DwAppend(w) ==
    /\ thr[w].pc = "dw_append"
    /\ stats' = [stats EXCEPT !.failed_files =
                    Append(@, FailureRecord(thr[w].task, thr[w].ret.error))]
    /\ completed' = completed \cup {thr[w].task}
    /\ thr' = [thr EXCEPT ![w] = IdleThread]
    /\ UNCHANGED <<fs, force, endpoint, outcome, mpc, submitted, started,
                   handled, interrupted, sigint, checkpoint, report, manifest,
                   exitcode, calls, svars>>

\* download_file raised: download_worker raises too, no counter is touched
DwRaise(w) ==
    /\ thr[w].pc = "df_raise"
    /\ outcome' = [outcome EXCEPT ![thr[w].task] = "raised"]
    /\ completed' = completed \cup {thr[w].task}
    /\ thr' = [thr EXCEPT ![w] = IdleThread]
    /\ UNCHANGED <<fs, force, endpoint, stats, mpc, submitted, started,
                   handled, interrupted, sigint, checkpoint, report, manifest,
                   exitcode, calls, svars>>

\* ------------------------------------------------- main, before the pool
\* the folder names a --reciters filter can hold: 0 is no reciter's folder
FilterNames == 0..NumReciters

\* args.reciters split at the commas; <<>> when the option is not given
Filters == UNION {[1..k -> FilterNames] : k \in 0..MaxFilter}

SurahTables == UNION {[1..k -> 1..MaxAyahs] : k \in 1..MaxSurahs}

\* what .download_progress.json can hold: nothing parseable, a JSON array,
\* or the object an earlier run saved
Unparseable == [exists |-> TRUE, json |-> "invalid"]

JsonArray == [exists |-> TRUE, json |-> "array"]

\* DownloadStats.save_progress: the file it writes
save_progress(st) ==
    [exists |-> TRUE, total |-> st.total, downloaded |-> st.downloaded,
     skipped |-> st.skipped, failed |-> st.failed,
     failed_files |-> st.failed_files]

CheckpointContents ==
    {NoFileOnDisk, Unparseable, JsonArray,
     save_progress([DownloadStats EXCEPT !.total = 1, !.downloaded = 1])}

\* DownloadStats.load_progress: the parsed JSON value, or None
load_progress(file) ==
    IF ~file.exists \/ file = Unparseable THEN None
    ELSE IF file = JsonArray THEN [kind |-> "list", value |-> file]
    ELSE [kind |-> "dict", value |-> file]

\* one selected reciter per name of the filter, in the filter's order
RECURSIVE SelectRecitersPerName(_)
SelectRecitersPerName(reciter_folders) ==
    IF reciter_folders = <<>> THEN <<>>
    ELSE SelectSeq(RECITERS, LAMBDA r : r.folder = Head(reciter_folders))
         \o SelectRecitersPerName(Tail(reciter_folders))

\* line 479: [r for r in RECITERS if r["folder"] in reciter_folders]
SelectReciters(reciter_folders) ==
    SelectSeq(RECITERS,
              LAMBDA r : \E i \in 1..Len(reciter_folders) :
                            reciter_folders[i] = r.folder)

\* main before any option is looked at
InitStart ==
    /\ mpc = "start"
    /\ args \in [list_reciters : BOOLEAN, output : BOOLEAN,
                  reciters : Filters, dry_run : BOOLEAN,
                  workers : {NumWorkers}]
    /\ confirm \in {"y", "n"}
    /\ force \in BOOLEAN
    /\ surah_table \in SurahTables
    /\ checkpoint \in CheckpointContents
    /\ outdir = checkpoint.exists
    /\ selected_reciters = <<>>
    /\ tasks = <<>>
    /\ prev_progress = None
    /\ rerun = FALSE
    /\ report = NoFileOnDisk
    /\ fs = [p \in Paths |-> Absent]
    /\ endpoint = "mock"
    /\ thr = [w \in Workers |-> IdleThread]
    /\ outcome = [t \in TaskIds |-> "none"]
    /\ stats = DownloadStats
    /\ calls = 0
    /\ InitPool

\* lines 460-468: --list-reciters
MainListReciters ==
    /\ mpc = "start"
    /\ args.list_reciters
    /\ exitcode' = 0
    /\ mpc' = "done"
    /\ UNCHANGED <<fs, force, endpoint, thr, outcome, stats, submitted,
                   started, completed, handled, interrupted, sigint, checkpoint,
                   report, manifest, calls, svars>>

\* the output directory made as soon as its name is known
MainSelectMkdirFirst ==
    /\ mpc = "start"
    /\ ~args.list_reciters
    /\ IF ~args.output
       THEN /\ exitcode' = 2
            /\ mpc' = "done"
            /\ UNCHANGED <<selected_reciters, tasks, outdir>>
       ELSE LET reciters == IF args.reciters # <<>>
                            THEN SelectReciters(args.reciters)
                            ELSE RECITERS
            IN  /\ outdir' = TRUE
                /\ IF reciters = <<>>
                   THEN /\ exitcode' = 1
                        /\ mpc' = "done"
                        /\ UNCHANGED <<selected_reciters, tasks>>
                   ELSE /\ selected_reciters' = reciters
                        /\ tasks' = generate_download_tasks(reciters,
                                                            surah_table)
                        /\ mpc' = "generated"
                        /\ exitcode' = exitcode
    /\ UNCHANGED <<fs, force, endpoint, thr, outcome, stats, submitted,
                   started, completed, handled, interrupted, sigint, checkpoint,
                   report, manifest, calls, args, confirm, surah_table,
                   prev_progress, rerun>>

\* lines 470-499: --output is required (parser.error exits with 2), the
\* --reciters filter, generate_download_tasks
MainSelect ==
    /\ mpc = "start"
    /\ ~args.list_reciters
    /\ IF ~args.output
       THEN /\ exitcode' = 2
            /\ mpc' = "done"
            /\ UNCHANGED <<selected_reciters, tasks, outdir>>
       ELSE LET reciters == IF args.reciters # <<>>
                            THEN SelectReciters(args.reciters)
                            ELSE RECITERS
            IN  /\ outdir' = outdir
                /\ IF reciters = <<>>
                   THEN /\ exitcode' = 1
                        /\ mpc' = "done"
                        /\ UNCHANGED <<selected_reciters, tasks>>
                   ELSE /\ selected_reciters' = reciters
                        /\ tasks' = generate_download_tasks(reciters,
                                                            surah_table)
                        /\ mpc' = "generated"
                        /\ exitcode' = exitcode
    /\ UNCHANGED <<fs, force, endpoint, thr, outcome, stats, submitted,
                   started, completed, handled, interrupted, sigint, checkpoint,
                   report, manifest, calls, args, confirm, surah_table,
                   prev_progress, rerun>>

\* lines 501-507: --dry-run
MainDryRun ==
    /\ mpc = "generated"
    /\ args.dry_run
    /\ exitcode' = 0
    /\ mpc' = "done"
    /\ UNCHANGED <<fs, force, endpoint, thr, outcome, stats, submitted,
                   started, completed, handled, interrupted, sigint, checkpoint,
                   report, manifest, calls, svars>>

\* lines 509-520: the confirmation prompt
MainConfirm ==
    /\ mpc = "generated"
    /\ ~args.dry_run
    /\ IF confirm # "y"
       THEN exitcode' = 0 /\ mpc' = "done"
       ELSE exitcode' = exitcode /\ mpc' = "prepare"
    /\ UNCHANGED <<fs, force, endpoint, thr, outcome, stats, submitted,
                   started, completed, handled, interrupted, sigint, checkpoint,
                   report, manifest, calls, svars>>

\* lines 522-537: mkdir, load_progress and the [RESUME] message, whose
\* prev_progress.get raises AttributeError on a value that is no dict (the
\* traceback ends the process with status 1); stats.start
MainPrepare ==
    /\ mpc = "prepare"
    /\ outdir' = TRUE
    /\ prev_progress' = load_progress(checkpoint)
    /\ IF /\ prev_progress'.kind # "None"
          /\ ~force
          /\ prev_progress'.kind # "dict"
       THEN /\ mpc' = "raised"
            /\ exitcode' = 1
            /\ stats' = stats
       ELSE /\ mpc' = "submit"
            /\ exitcode' = exitcode
            /\ stats' = [DownloadStats EXCEPT !.total = Len(tasks)]
    /\ UNCHANGED <<fs, force, endpoint, thr, outcome, submitted, started,
                   completed, handled, interrupted, sigint, checkpoint, report,
                   manifest, calls, args, confirm, surah_table,
                   selected_reciters, tasks, rerun>>

NextStart ==
    \/ MainListReciters
    \/ MainSelect
    \/ MainDryRun
    \/ MainConfirm
    \/ MainPrepare

SpecStart == InitStart /\ [][NextStart]_vars

\* ------------------------------------------------------- main, the pool
\* lines 557-560: one executor.submit of the dict comprehension
Submit ==
    /\ mpc = "submit"
    /\ submitted < NumTasks
    /\ submitted' = submitted + 1
    /\ mpc' = IF submitted + 1 = NumTasks THEN "as_completed" ELSE "submit"
    /\ UNCHANGED <<fs, force, endpoint, thr, outcome, stats, started,
                   completed, handled, interrupted, sigint, checkpoint, report,
                   manifest, exitcode, calls, svars>>

\* lines 564-582: one iteration of the as_completed loop; the 30 second
\* timer has run out or not; after the last future the with block is left
AsCompleted ==
    /\ mpc = "as_completed"
    /\ handled < Cardinality(completed)
    /\ handled' = handled + 1
    /\ \E timer_due \in BOOLEAN :
         checkpoint' = IF timer_due THEN save_progress(stats) ELSE checkpoint
    /\ mpc' = IF handled + 1 = NumTasks THEN "summary" ELSE "as_completed"
    /\ UNCHANGED <<fs, force, endpoint, thr, outcome, stats, submitted,
                   started, completed, interrupted, sigint, report, manifest,
                   exitcode, calls, svars>>

\* Ctrl+C while main is inside the with block: KeyboardInterrupt leaves the
\* block through ThreadPoolExecutor.__exit__, i.e. shutdown(wait=True)
Interrupt ==
    /\ mpc \in {"submit", "as_completed"}
    /\ mpc' = "shutdown"
    /\ sigint' = TRUE
    /\ UNCHANGED <<fs, force, endpoint, thr, outcome, stats, submitted,
                   started, completed, handled, interrupted, checkpoint, report,
                   manifest, exitcode, calls, svars>>

PoolDrained ==
    /\ started = submitted
    /\ \A w \in Workers : thr[w].pc = "idle"

\* shutdown(wait=True) has joined the threads: the queue is empty; the
\* exception reaches line 584
ShutdownJoined ==
    /\ mpc = "shutdown"
    /\ PoolDrained
    /\ interrupted' = TRUE
    /\ mpc' = "summary"
    /\ UNCHANGED <<fs, force, endpoint, thr, outcome, stats, submitted,
                   started, completed, handled, sigint, checkpoint, report,
                   manifest, exitcode, calls, svars>>

\* a second Ctrl+C during the join: the new KeyboardInterrupt leaves
\* __exit__ at once and reaches line 584 while threads still run
InterruptJoin ==
    /\ mpc = "shutdown"
    /\ ~PoolDrained
    /\ interrupted' = TRUE
    /\ mpc' = "summary"
    /\ UNCHANGED <<fs, force, endpoint, thr, outcome, stats, submitted,
                   started, completed, handled, sigint, checkpoint, report,
                   manifest, exitcode, calls, svars>>

\* lines 599-604: the failed files report
WriteReport ==
    /\ mpc = "summary"
    /\ report' = IF stats.failed_files # <<>>
                 THEN [exists |-> TRUE, failed_files |-> stats.failed_files]
                 ELSE report
    /\ mpc' = "manifest"
    /\ UNCHANGED <<fs, force, endpoint, thr, outcome, stats, submitted,
                   started, completed, handled, interrupted, sigint, checkpoint,
                   manifest, exitcode, calls, svars>>

\* lines 611-627: the manifest and the exit code
WriteManifest ==
    /\ mpc = "manifest"
    /\ manifest' = [exists |-> TRUE, reciters |-> RECITERS,
                    total_files |-> stats.total,
                    downloaded |-> stats.downloaded,
                    skipped |-> stats.skipped, failed |-> stats.failed]
    /\ exitcode' = IF stats.failed = 0 THEN 0 ELSE 1
    /\ mpc' = "done"
    /\ UNCHANGED <<fs, force, endpoint, thr, outcome, stats, submitted,
                   started, completed, handled, interrupted, sigint, checkpoint,
                   report, calls, svars>>

Next ==
    \/ \E w \in Workers : WorkerTake(w)
    \/ \E w \in Workers : DownloadFileCall(w)
    \/ \E w \in Workers : DwRead(w)
    \/ \E w \in Workers : DwWrite(w)
    \/ \E w \in Workers : DwAppend(w)
    \/ \E w \in Workers : DwRaise(w)
    \/ Submit
    \/ AsCompleted
    \/ Interrupt
    \/ ShutdownJoined
    \/ InterruptJoin
    \/ WriteReport
    \/ WriteManifest

Spec == Init /\ [][Next]_vars

\* ------------------------------------------- download_file called directly
\* one caller thread calls download_file on a task of the catalog, with any
\* force flag, again and again; the process can be killed inside a call
InitFetch ==
    /\ InitFs({[t \in TaskIds |-> d] : d \in InitialDestFiles})
    /\ force = FALSE
    /\ endpoint \in EndpointModes
    /\ thr = [w \in Workers |-> IdleThread]
    /\ InitMain
    /\ outcome = [t \in TaskIds |-> "none"]
    /\ stats = [DownloadStats EXCEPT !.total = NumTasks]
    /\ calls = 0
    /\ InitLocals
    /\ report = NoFileOnDisk
    /\ rerun = FALSE
    /\ args = RunArgs(1)

FetchCall ==
    /\ thr[1].pc = "idle"
    /\ calls < MaxCalls
    /\ calls' = calls + 1
    /\ \E f \in BOOLEAN : force' = f
    /\ \E t \in TaskIds :
         /\ \A u \in TaskIds \ {t} : outcome[u] = "none"
         /\ EnterCall(1, t)
    /\ UNCHANGED <<fs, endpoint, outcome, stats, mvars, svars>>

FetchReturn ==
    /\ thr[1].pc = "df_ret"
    /\ outcome' = [outcome EXCEPT ![thr[1].task] = OutcomeOf(thr[1].ret)]
    /\ thr' = [thr EXCEPT ![1] = IdleThread]
    /\ UNCHANGED <<fs, force, endpoint, stats, mvars, calls, svars>>

FetchRaise ==
    /\ thr[1].pc = "df_raise"
    /\ outcome' = [outcome EXCEPT ![thr[1].task] = "raised"]
    /\ thr' = [thr EXCEPT ![1] = IdleThread]
    /\ UNCHANGED <<fs, force, endpoint, stats, mvars, calls, svars>>

\* the process dies inside a call: its memory is gone, the files stay
Crash ==
    /\ thr[1].pc \in DfPcs
    /\ outcome' = [outcome EXCEPT ![thr[1].task] = "crashed"]
    /\ thr' = [thr EXCEPT ![1] = IdleThread]
    /\ UNCHANGED <<fs, force, endpoint, stats, mvars, calls, svars>>

NextFetch ==
    \/ FetchCall
    \/ DownloadFileStep(1)
    \/ FetchReturn
    \/ FetchRaise
    \/ Crash

SpecFetch == InitFetch /\ [][NextFetch]_vars

\* ================================================================ claims
CountOutcome(k) == Cardinality({t \in TaskIds : outcome[t] = k})

Counted == {"downloaded", "skipped", "failed"}

InCall(th) == th.pc \in DfPcs \cup {"df_ret", "df_raise"}

DestOf(th) == Tasks[th.task].output_path

\* C1: once every work item of an uninterrupted run is over and each call
\* of download_file has returned a result, every counter equals the number
\* of tasks that ended with that outcome and the three counters sum to the
\* number of tasks: no "+= 1" of a worker is lost.
C1_NoLostUpdate ==
    (/\ completed = TaskIds
     /\ ~sigint
     /\ \A t \in TaskIds : outcome[t] \in Counted)
    => /\ stats.downloaded = CountOutcome("downloaded")
       /\ stats.skipped = CountOutcome("skipped")
       /\ stats.failed = CountOutcome("failed")
       /\ stats.downloaded + stats.skipped + stats.failed = NumTasks

C4_DestinationIsWhole ==
    /\ [](\A t \in TaskIds :
            LET d == fs[Tasks[t].output_path] IN
              (d.exists /\ d.size >= MIN_VALID_FILE_SIZE) => d.whole)
    /\ [](\A t, u \in TaskIds :
            TempPath(Tasks[t].output_path) # Tasks[u].output_path)
    /\ [](\A w \in Workers :
            (thr[w].pc = "df_ret" /\ thr[w].ret = AlreadyPresent)
            => (thr[w].pre.dest.whole /\ fs[DestOf(thr[w])].whole))
    /\ [][\A t \in TaskIds :
            LET dest == Tasks[t].output_path
                temp == TempPath(dest)
            IN  (fs'[dest] # fs[dest] /\ fs'[dest].exists)
                => /\ fs[temp].exists
                   /\ fs[temp].whole
                   /\ fs[temp].size >= MIN_VALID_FILE_SIZE
                   /\ fs'[dest] = fs[temp]
                   /\ ~fs'[temp].exists]_vars

\* C4 witness: the process was killed while a temp file held a part, 1024
\* bytes or more, of a body; a new call on the same task, force off, has
\* passed the already-present check and goes on to download.
C4_Witness ==
    \E w \in Workers :
      /\ thr[w].pc = "df_get"
      /\ ~force
      /\ outcome[thr[w].task] = "crashed"
      /\ thr[w].pre.temp.exists
      /\ thr[w].pre.temp.size >= MIN_VALID_FILE_SIZE
      /\ ~thr[w].pre.temp.whole
      /\ fs[TempPath(DestOf(thr[w]))] = thr[w].pre.temp

\* C5: once KeyboardInterrupt has been raised in main, no further work item
\* is started.
C5_NoDispatchAfterInterrupt == [][sigint => started' = started]_vars

\* C6: when main has ended, the checkpoint file exists and its counters are
\* those of the DownloadStats object.
C6_CheckpointAtShutdown ==
    mpc = "done"
    => /\ checkpoint.exists
       /\ checkpoint.downloaded = stats.downloaded
       /\ checkpoint.skipped = stats.skipped
       /\ checkpoint.failed = stats.failed

\* C7: when a run that was not interrupted has ended, every task of the
\* catalog has one of the three outcomes and the counters sum to the total.
C7_EveryTaskOneOutcome ==
    (mpc = "done" /\ ~interrupted)
    => /\ \A t \in TaskIds : outcome[t] \in Counted
       /\ stats.downloaded + stats.skipped + stats.failed = stats.total

C9_TimeoutRetry ==
    \A w \in Workers :
      LET th == thr[w] IN
        (endpoint = "always_timeout" /\ InCall(th))
        => /\ th.nreq <= 3
           /\ th.pc # "df_raise"
           /\ (th.pc = "df_ret" /\ th.ret # AlreadyPresent)
              => /\ th.nreq = 3
                 /\ th.ret = Failed("Timeout")
                 /\ Len(th.delays) = 2
                 /\ th.delays[2] > th.delays[1]

\* C9 witness: a call against the always-timeout endpoint has returned
\* Failed("Timeout").
C9_Witness ==
    \E w \in Workers :
      /\ endpoint = "always_timeout"
      /\ thr[w].pc = "df_ret"
      /\ thr[w].ret = Failed("Timeout")
      /\ thr[w].nreq = 3

\* C10: once session.get has answered 404 the call is on its way out with
\* Failed("404 Not Found") and makes no further request; against an
\* endpoint that always answers 404, a call that reaches the network returns
\* after exactly one request.
C10_NotFoundShortCircuit ==
    /\ [](\A w \in Workers :
            LET th == thr[w] IN
              /\ (InCall(th) /\ th.resp = "404")
                 => /\ th.pc \in {"df_finally", "df_ret"}
                    /\ th.ret = Failed("404 Not Found")
              /\ (/\ endpoint = "always_404"
                  /\ th.pc = "df_ret"
                  /\ th.ret # AlreadyPresent)
                 => (th.nreq = 1 /\ th.ret = Failed("404 Not Found")))
    /\ [][\A w \in Workers :
            thr[w].resp = "404" => thr'[w].nreq <= thr[w].nreq]_vars

\* C10 witness: a call whose second request was answered 404 has returned
\* Failed("404 Not Found").
C10_Witness ==
    \E w \in Workers :
      /\ thr[w].pc = "df_ret"
      /\ thr[w].resp = "404"
      /\ thr[w].nreq = 2
      /\ thr[w].ret = Failed("404 Not Found")

TooSmall == Failed("Downloaded file too small")

\* C11: when the body of a 200 response has been streamed whole and is below
\* 1024 bytes, the next step of the call deletes the temp file and sets the
\* result Failed("Downloaded file too small") without a request; from then
\* on the call makes no request, the temp file stays absent and the
\* destination is absent or still the file the forced call found.
C11_UndersizedBodyPermanent ==
    /\ [](\A w \in Workers :
            LET th == thr[w] IN
              (InCall(th) /\ th.ret = TooSmall)
              => /\ th.pc \in {"df_finally", "df_ret"}
                 /\ th.resp = "200"
                 /\ th.body < MIN_VALID_FILE_SIZE
                 /\ ~fs[TempPath(DestOf(th))].exists
                 /\ \/ ~fs[DestOf(th)].exists
                    \/ force /\ fs[DestOf(th)] = th.pre.dest)
    /\ [][\A w \in Workers :
            LET th == thr[w] IN
              /\ (/\ th.pc = "df_verify"
                  /\ fs[TempPath(DestOf(th))].size < MIN_VALID_FILE_SIZE
                  /\ InCall(thr'[w])
                  /\ thr'[w] # th)
                 => /\ thr'[w].ret = TooSmall
                    /\ thr'[w].nreq = th.nreq
                    /\ ~fs'[TempPath(DestOf(th))].exists
              /\ th.ret = TooSmall => thr'[w].nreq <= th.nreq]_vars

\* C11 witness: a call, force off, whose first request was answered 200
\* with a body of 1023 bytes has returned Failed; no destination file.
C11_Witness ==
    \E w \in Workers :
      /\ thr[w].pc = "df_ret"
      /\ thr[w].ret = TooSmall
      /\ thr[w].nreq = 1
      /\ thr[w].body = MIN_VALID_FILE_SIZE - 1
      /\ ~force
      /\ ~fs[DestOf(thr[w])].exists

\* C12: a run does not depend on the checkpoint file: whatever the file
\* holds (nothing, no JSON, any JSON value), the step of main that looks at
\* it goes on to the pool with the catalog, the force flag and the files as
\* they were and with fresh counters, so that every task gets the decision
\* download_file makes from the force flag and the destination file.
C12_CheckpointNonInterference ==
    [][mpc = "prepare"
       => /\ mpc' = "submit"
          /\ stats' = [DownloadStats EXCEPT !.total = Len(tasks)]
          /\ tasks' = tasks
          /\ force' = force
          /\ fs' = fs
          /\ exitcode' = exitcode]_vars

\* the threads inside a download_file call
InFlight == {w \in Workers : thr[w].pc \in DfPcs}

\* C20: at every moment the number of download_file calls that have begun
\* and not yet returned or raised is at most args.workers.
C20_PoolBound == Cardinality(InFlight) <= args.workers

\* C20 witness: a pool of two or more workers with every worker inside a
\* call.
C20_Witness ==
    /\ args.workers >= 2
    /\ Cardinality(InFlight) = args.workers

\* C13: when main has returned and every thread has stopped, the exit code
\* is 0 if no task ended Failed and nonzero if at least one did.
C13_ExitCode ==
    (mpc = "done" /\ PoolDrained)
    => (exitcode = 0 <=> \A t \in TaskIds : outcome[t] # "failed")

\* main has returned and every thread has stopped
RunOver == mpc = "done" /\ PoolDrained

IsPrefix(s, t) == Len(s) <= Len(t) /\ SubSeq(t, 1, Len(s)) = s

\* C14: at the end of a run the failure list holds one FailureRecord for
\* each task that ended Failed and no other record, its length is the
\* failed counter, and the report file, written when the list is not
\* empty, holds that list; a step never changes or removes a record of the
\* list.
C14_FailureRecords ==
    /\ [](RunOver
          => /\ \A t \in TaskIds :
                  (outcome[t] = "failed")
                  <=> (\E i \in 1..Len(stats.failed_files) :
                         stats.failed_files[i].path = Tasks[t].output_path)
             /\ Len(stats.failed_files) = CountOutcome("failed")
             /\ Len(stats.failed_files) = stats.failed
             /\ stats.failed_files # <<>>
                => /\ report.exists
                   /\ report.failed_files = stats.failed_files)
    /\ [][IsPrefix(stats.failed_files, stats'.failed_files)]_vars

\* C15: a run without force that began with every destination file valid
\* changes no file, gives no task another outcome than AlreadyPresent (the
\* result download_file returns without a request) and, when it has ended
\* without an interrupt, has every task AlreadyPresent, skipped = total,
\* downloaded = failed = 0 and exit code 0.
C15_RerunOffline ==
    rerun
    => /\ AllPresent
       /\ \A t \in TaskIds : outcome[t] \in {"none", "skipped"}
       /\ (RunOver /\ ~sigint)
          => /\ \A t \in TaskIds : outcome[t] = "skipped"
             /\ stats.skipped = stats.total
             /\ stats.downloaded = 0
             /\ stats.failed = 0
             /\ exitcode = 0

\* C16: the failure report and the manifest are written only when every
\* worker has stopped; when the run is over, interrupted or not, the
\* manifest exists and its counts are the final counters, and the report
\* holds the failure list if that is not empty.
C16_EndOfRunReporting ==
    /\ [][(report' # report \/ manifest' # manifest) => PoolDrained]_vars
    /\ [](RunOver
          => /\ manifest.exists
             /\ manifest.total_files = stats.total
             /\ manifest.downloaded = stats.downloaded
             /\ manifest.skipped = stats.skipped
             /\ manifest.failed = stats.failed
             /\ stats.failed_files # <<>>
                => /\ report.exists
                   /\ report.failed_files = stats.failed_files)

\* main has built its catalog
Generated == mpc # "start" /\ selected_reciters # <<>>

RECURSIVE SumSeq(_)
SumSeq(s) == IF s = <<>> THEN 0 ELSE Head(s) + SumSeq(Tail(s))

\* the place in main's reciter list of the reciter of the i-th task
ReciterIndex(i) ==
    CHOOSE k \in 1..Len(selected_reciters) :
      selected_reciters[k].folder = tasks[i].output_path.folder

Before(i, j) ==
    \/ ReciterIndex(i) < ReciterIndex(j)
    \/ /\ ReciterIndex(i) = ReciterIndex(j)
       /\ \/ tasks[i].surah < tasks[j].surah
          \/ /\ tasks[i].surah = tasks[j].surah
             /\ tasks[i].ayah < tasks[j].ayah

\* C17: the catalog generate_download_tasks returns for a reciter list and
\* a table of ayah counts has as many tasks as reciters times the sum of
\* the counts; every task is the task of a reciter of the list, a surah of
\* the table and an ayah from 1 to that surah's count; and the tasks come
\* in reciter order, then surah order, then ayah order, each once.
C17_CatalogOrdered ==
    Generated
    => /\ Len(tasks) = Len(selected_reciters) * SumSeq(surah_table)
       /\ \A i \in 1..Len(tasks) :
            /\ \E k \in 1..Len(selected_reciters) :
                 tasks[i] = MakeTask(selected_reciters[k], tasks[i].surah,
                                     tasks[i].ayah)
            /\ tasks[i].surah \in 1..Len(surah_table)
            /\ tasks[i].ayah \in 1..surah_table[tasks[i].surah]
       /\ \A i, j \in 1..Len(tasks) : i < j => Before(i, j)

\* C17 witness: a catalog of two or more reciters over a table of two or
\* more surahs, the first of two or more ayahs.
C17_Witness ==
    /\ Generated
    /\ Len(selected_reciters) >= 2
    /\ Len(surah_table) >= 2
    /\ surah_table[1] >= 2
    /\ Len(tasks) >= 6

\* C18: no two tasks of the catalog have the same destination path, with
\* all reciters and with every --reciters filter.
C18_DistinctDestinations ==
    Generated
    => \A i, j \in 1..Len(tasks) :
         i # j => tasks[i].output_path # tasks[j].output_path

\* C18 witness: a catalog built with a filter that names the same folder
\* twice.
C18_Witness ==
    /\ Generated
    /\ Len(args.reciters) = 2
    /\ args.reciters[1] = args.reciters[2]
    /\ Len(tasks) >= 2

\* a step of main makes no request, no directory and writes no file
NoEffect ==
    /\ fs' = fs
    /\ outdir' = outdir
    /\ checkpoint' = checkpoint
    /\ report' = report
    /\ manifest' = manifest
    /\ thr' = thr
    /\ submitted' = submitted

\* C19 as stated: with --dry-run or --list-reciters no step of main has an
\* effect, and main returns 0.
C19_NoEffectReturnsZero ==
    [][(args.list_reciters \/ args.dry_run)
       => /\ NoEffect
          /\ mpc' = "done" => exitcode' = 0]_vars

\* C19 amended: with --dry-run or --list-reciters no step of main has an
\* effect; main returns 0 with --list-reciters, and with --dry-run when
\* --output is given and the filter, if any, names a known folder; a
\* --dry-run without --output ends with status 2, one whose filter names
\* no known folder returns 1.
C19_NoEffect ==
    [][(args.list_reciters \/ args.dry_run)
       => /\ NoEffect
          /\ mpc' # "prepare"
          /\ mpc' = "done"
             => exitcode' = IF args.list_reciters THEN 0
                            ELSE IF ~args.output THEN 2
                            ELSE IF /\ args.reciters # <<>>
                                    /\ SelectReciters(args.reciters) = <<>>
                                 THEN 1
                            ELSE 0]_vars

\* C19 witness: a --dry-run with no output directory on disk has built its
\* catalog and returned 0; there is still no directory.
C19_Witness ==
    /\ args.dry_run
    /\ ~args.list_reciters
    /\ mpc = "done"
    /\ exitcode = 0
    /\ tasks # <<>>
    /\ ~outdir

\* C21: in a download_file call that has slept twice, whatever the two
\* retryable failures were, the second delay is strictly greater than the
\* first.
C21_BackoffIncreases ==
    \A w \in Workers :
      (InCall(thr[w]) /\ Len(thr[w].delays) >= 2)
      => thr[w].delays[2] > thr[w].delays[1]

\* the error string of a retryable failure, by what session.get gave; a
\* 200 whose transfer broke is a RequestException
ErrorOf(resp) ==
    CASE resp = "500" -> "HTTP 500"
      [] resp = "Timeout" -> "Timeout"
      [] OTHER -> "ConnectionError"

PcRank(pc) ==
    CASE pc = "df_get" -> 4
      [] pc = "df_stream" -> 3
      [] pc = "df_verify" -> 2
      [] pc = "df_finally" -> 1
      [] OTHER -> 0

\* what is left of a call: attempts not yet begun, then steps of this one
Measure(th) ==
    IF th.pc = "df_begin" THEN 5 * Retries + 5
    ELSE IF th.pc \in DfPcs THEN 5 * (Retries - th.attempt) + PcRank(th.pc)
    ELSE 0

\* C22: a download_file call makes at most 3 requests, one per attempt, and
\* every step of it brings it nearer to its end; when its third request
\* failed in a retryable way it returns the error of that third failure;
\* it never returns "Max retries exceeded".
C22_RetryBound ==
    /\ [](\A w \in Workers :
            LET th == thr[w] IN
              InCall(th)
              => /\ th.nreq <= Retries
                 /\ th.attempt < Retries
                 /\ th.pc \in {"df_stream", "df_verify", "df_finally"}
                    => th.nreq = th.attempt + 1
                 /\ th.pc = "df_get" => th.nreq = th.attempt
                 /\ th.pc = "df_ret"
                    => /\ th.ret # Failed("Max retries exceeded")
                       /\ (/\ th.nreq = Retries
                           /\ IsFailed(th.ret)
                           /\ th.ret # Failed("404 Not Found")
                           /\ th.ret # Failed("Downloaded file too small"))
                          => th.ret = Failed(ErrorOf(th.resp)))
    /\ [][\A w \in Workers :
            (thr[w].pc \in DfPcs /\ thr'[w] # thr[w] /\ InCall(thr'[w]))
            => Measure(thr'[w]) < Measure(thr[w])]_vars

\* C22 witness: a call has returned Failed("HTTP 500") after 3 requests,
\* the first of which failed with an exception.
C22_Witness ==
    \E w \in Workers :
      /\ thr[w].pc = "df_ret"
      /\ thr[w].nreq = Retries
      /\ thr[w].ret = Failed("HTTP 500")
      /\ Len(thr[w].delays) = 2
      /\ thr[w].delays[1] = ExceptionBackoff(0)

\* C24: a download_file call with force on does not return AlreadyPresent
\* and has made a request when it returns or raises; the destination file
\* changes only by the rename of a whole temp file of 1024 bytes or more,
\* not by a deletion, so after a forced call that failed or raised the
\* destination is the file the call found.
C24_ForceMode ==
    /\ [](\A w \in Workers :
            LET th == thr[w] IN
              (InCall(th) /\ force)
              => /\ th.pc = "df_ret" => th.ret # AlreadyPresent
                 /\ th.pc \in {"df_ret", "df_raise"} => th.nreq >= 1
                 /\ (th.pc = "df_raise"
                     \/ (th.pc = "df_ret" /\ IsFailed(th.ret)))
                    => fs[DestOf(th)] = th.pre.dest
                 /\ fs[DestOf(th)] # th.pre.dest
                    => /\ th.ret = NewlyDownloaded
                       /\ fs[DestOf(th)].whole
                       /\ fs[DestOf(th)].size >= MIN_VALID_FILE_SIZE)
    /\ [][\A w \in Workers :
            LET dest == DestOf(thr[w])
                temp == TempPath(dest)
            IN  (InCall(thr[w]) /\ force /\ fs'[dest] # fs[dest])
                => /\ thr[w].pc = "df_verify"
                   /\ fs[temp].whole
                   /\ fs'[dest] = fs[temp]
                   /\ ~fs'[temp].exists]_vars

\* C24 witness: a forced call on an existing destination file was answered
\* 404 and has returned; the file is still there.
C24_Witness ==
    \E w \in Workers :
      /\ force
      /\ thr[w].pc = "df_ret"
      /\ thr[w].ret = Failed("404 Not Found")
      /\ thr[w].pre.dest.exists
      /\ thr[w].nreq >= 1
      /\ fs[DestOf(thr[w])] = thr[w].pre.dest

\* the two files download_file works on for the i-th task of the catalog
FilesOf(i) == {tasks[i].output_path, TempPath(tasks[i].output_path)}

\* C25: the temp path of a task is not its destination path, and the files
\* of two different tasks of the catalog (destination and temp file) are
\* all different, so that what a worker does to the files of its task
\* touches no file of another task.
C25_NoSharedTempFile ==
    Generated
    => /\ \A i \in 1..Len(tasks) : Cardinality(FilesOf(i)) = 2
       /\ \A i, j \in 1..Len(tasks) :
            i # j => FilesOf(i) \cap FilesOf(j) = {}

\* C25 witness: a catalog with two tasks of one reciter and one surah,
\* whose paths differ in the ayah digits only.
C25_Witness ==
    /\ Generated
    /\ \E i, j \in 1..Len(tasks) :
         /\ i # j
         /\ tasks[i].output_path.folder = tasks[j].output_path.folder
         /\ tasks[i].surah = tasks[j].surah

\* C23: when a run is over, the report file, if there is one, holds the
\* failure list of that run; after a run without a Failed outcome there
\* is no report file.
C23_ReportOfThisRun ==
    RunOver
    => /\ report.exists => report.failed_files = stats.failed_files
       /\ (\A t \in TaskIds : outcome[t] # "failed") => ~report.exists

====
